---------------------------- MODULE Spec2Model ----------------------------
(***************************************************************************)
(* Model of streamlit_app.py: the SQLite store estoque.db (init_db,        *)
(* load_data, save_changes), the page script that loads, normalises,       *)
(* classifies and sorts the products, and the editor sessions that submit  *)
(* edited snapshots to save_changes.                                       *)
(*                                                                         *)
(* A cell of a DataFrame or of the table is a tagged pair:                 *)
(*   <<"null", 0>>   None / NaN / NaT / SQL NULL                           *)
(*   <<"int", n>>    an integer                                            *)
(*   <<"text", s>>   a string                                              *)
(*   <<"date", d>>   a datetime.date object for the day d                  *)
(*   <<"iso", d>>    the string "YYYY-MM-DD" that names the day d          *)
(***************************************************************************)
EXTENDS Integers, Sequences, FiniteSets, TLC

VARIABLES
    db,        \* the file estoque.db: [exists, cols, rows, seq]
    ever,      \* history: the ids that rows of the current file have had
    df,        \* per session: the DataFrame built by the last page run
    edited,    \* per session: edited_df, what st.data_editor returns
    ran,       \* per session: the page script has run since the session last saved
    open,      \* the browser sessions that use the application
    edits,     \* number of editor interactions made so far
    runs,      \* number of page runs made so far
    savers,    \* the sessions that called save_changes, in the order of the calls
    assigned,  \* the rowids given by the INSERTs of the last save_changes
    lastOp     \* the last operation: [op, s, inspected, found, had]

vars == <<db, ever, df, edited, ran, open, edits, runs, savers, assigned, lastOp>>

---------------------------------------------------------------------------
(* Bounds *)

\* rows a snapshot or the table may hold
MaxRows == 2
\* editor interactions (cell edit, added row, removed row) in one behaviour
MaxEdits == 2
\* page runs in one behaviour
MaxRuns == 2
\* save_changes calls in one behaviour
MaxSaves == 2

Sessions == {"s1", "s2"}

---------------------------------------------------------------------------
(* Cells *)

Null == <<"null", 0>>
IntV(n) == <<"int", n>>
TextV(s) == <<"text", s>>
DateV(d) == <<"date", d>>
IsoV(d) == <<"iso", d>>

\* Days the editor's date picker can deliver.  pandas' nanosecond Timestamp
\* holds only the first; pd.to_datetime raises (or coerces to NaT) on the other.
Days == {"2024-05-01", "2300-01-01"}
Representable == {"2024-05-01"}

\* pd.isna / pd.notna
isna(c) == c = Null
notna(c) == c # Null

---------------------------------------------------------------------------
(* The table *)

data_cols ==
    {"produto", "sku", "categoria", "qtd_atual", "ponto_reposicao",
     "status_reposicao", "disponivel_mercado", "fornecedor",
     "data_ultima_compra", "previsao_entrega", "consumo_diario"}

required_cols == {"id"} \cup data_cols

NoRows == [i \in {} |-> Null]

NoFile == [exists |-> FALSE, cols |-> {}, rows |-> NoRows, seq |-> 0]

\* DB_PATH.unlink()
unlink(d) == NoFile

\* mutant: CREATE TABLE without IF NOT EXISTS after a DROP: always a fresh table
create_table_fresh(d) ==
    [exists |-> TRUE, cols |-> required_cols, rows |-> NoRows, seq |-> 0]

\* CREATE TABLE IF NOT EXISTS produtos (...); sqlite3.connect creates the file
create_table(d) ==
    IF d.cols = {}
    THEN [exists |-> TRUE, cols |-> required_cols, rows |-> NoRows, seq |-> 0]
    ELSE [d EXCEPT !.exists = TRUE]

\* mutant: all(...) in place of any(...): rebuilds only when every column is missing
schema_guard_all_missing(d, inspected) ==
    IF ~d.exists THEN d
    ELSE IF ~inspected THEN unlink(d)
    ELSE IF d.cols # {} /\ (\A col \in required_cols : col \notin d.cols)
         THEN unlink(d)
    ELSE d

\* the schema check of init_db; inspected = FALSE when the connect, the PRAGMA
\* or the fetch raises
schema_guard(d, inspected) ==
    IF ~d.exists THEN d
    ELSE IF ~inspected THEN unlink(d)
    ELSE IF d.cols # {} /\ (\E col \in required_cols : col \notin d.cols)
         THEN unlink(d)
    ELSE d

init_db(d, inspected) == create_table(schema_guard(d, inspected))


---------------------------------------------------------------------------
(* load_data and the page script up to the sort *)

RECURSIVE ascending(_)
\* the elements of a finite set of integers, smallest first
ascending(S) ==
    IF S = {} THEN <<>>
    ELSE LET m == CHOOSE x \in S : \A y \in S : x <= y
         IN <<m>> \o ascending(S \ {m})

\* SELECT * FROM produtos: one DataFrame row per table row, in rowid order
load_data(d) ==
    LET ids == ascending(DOMAIN d.rows)
    IN [k \in 1..Len(ids) |->
           [c \in d.cols |-> IF c = "id" THEN IntV(ids[k]) ELSE d.rows[ids[k]][c]]]

\* the two example rows the script shows while the table is empty
exemplos ==
    << [id |-> Null, produto |-> TextV("Exemplo 1"), sku |-> TextV("SKU001"),
        categoria |-> TextV("Medicamento"), qtd_atual |-> IntV(5),
        ponto_reposicao |-> IntV(350), status_reposicao |-> TextV("nao_solicitado"),
        disponivel_mercado |-> IntV(1), fornecedor |-> TextV("Fornecedor A"),
        data_ultima_compra |-> Null, previsao_entrega |-> Null,
        consumo_diario |-> Null],
       [id |-> Null, produto |-> TextV("Exemplo 2"), sku |-> TextV("SKU002"),
        categoria |-> TextV("Insumo"), qtd_atual |-> IntV(0),
        ponto_reposicao |-> IntV(700), status_reposicao |-> TextV("solicitado"),
        disponivel_mercado |-> IntV(0), fornecedor |-> TextV("Fornecedor B"),
        data_ultima_compra |-> Null, previsao_entrega |-> Null,
        consumo_diario |-> Null] >>

\* Series.fillna(v)
fillna(c, v) == IF isna(c) THEN v ELSE c

\* pd.to_datetime(col, errors="coerce").dt.date on one cell
to_date_coerce(c) ==
    IF c[1] \in {"iso", "date"} /\ c[2] \in Representable THEN DateV(c[2]) ELSE Null

\* "Normaliza tipos base" and the two date columns
normaliza(r) ==
    [r EXCEPT !.qtd_atual = fillna(@, IntV(0)),
              !.ponto_reposicao = fillna(@, IntV(0)),
              !.disponivel_mercado = fillna(@, IntV(1)),
              !.status_reposicao = fillna(@, TextV("nao_solicitado")),
              !.data_ultima_compra = to_date_coerce(@),
              !.previsao_entrega = to_date_coerce(@)]

\* The labels, one word per element; the first stands for the emoji.
SemEstoqueSemMercado == <<"(vermelho)", "Sem", "estoque", "e", "sem", "mercado">>
Critico == <<"(quadrado)", "Critico", "(mercado", "ruim)">>
SemEstoque == <<"(laranja)", "Sem", "estoque">>
Baixo == <<"(amarelo)", "Baixo">>
Ok == <<"(verde)", "OK">>

classificar_linha(row) ==
    IF row.qtd_atual[2] <= 0 /\ row.disponivel_mercado[2] = 0 THEN SemEstoqueSemMercado
    ELSE IF row.qtd_atual[2] <= row.ponto_reposicao[2] /\ row.disponivel_mercado[2] = 0
         THEN Critico
    ELSE IF row.qtd_atual[2] <= 0 THEN SemEstoque
    ELSE IF row.qtd_atual[2] <= row.ponto_reposicao[2] THEN Baixo
    ELSE Ok

\* Python's  sub in txt  on the word sequences
contains(txt, sub) ==
    \E i \in 0..(Len(txt) - Len(sub)) : SubSeq(txt, i + 1, i + Len(sub)) = sub

\* mutant: the shorter label "Sem estoque" tested before the longer one
prioridade_short_first(txt) ==
    IF contains(txt, <<"Sem", "estoque">>) THEN 2
    ELSE IF contains(txt, <<"Sem", "estoque", "e", "sem", "mercado">>) THEN 4
    ELSE IF contains(txt, <<"Critico", "(mercado", "ruim)">>) THEN 3
    ELSE IF contains(txt, <<"Baixo">>) THEN 1
    ELSE 0

prioridade(txt) ==
    IF contains(txt, <<"Sem", "estoque", "e", "sem", "mercado">>) THEN 4
    ELSE IF contains(txt, <<"Critico", "(mercado", "ruim)">>) THEN 3
    ELSE IF contains(txt, <<"Sem", "estoque">>) THEN 2
    ELSE IF contains(txt, <<"Baixo">>) THEN 1
    ELSE 0

\* the columns the script adds: the pandas index, situacao and prioridade
derive(r, idx) ==
    LET n == normaliza(r)
        sit == classificar_linha(n)
    IN [c \in DOMAIN n \cup {"index", "situacao", "prioridade"} |->
           IF c = "index" THEN IntV(idx)
           ELSE IF c = "situacao" THEN TextV(sit)
           ELSE IF c = "prioridade" THEN IntV(prioridade(sit))
           ELSE n[c]]

\* df after lines 225-344, before the sort
derived_df(d) ==
    LET loaded == load_data(d)
        base == IF DOMAIN d.rows = {} THEN exemplos ELSE loaded
    IN [k \in 1..Len(base) |-> derive(base[k], k - 1)]

\* df.sort_values("prioridade", ascending=False): kind defaults to quicksort, which
\* orders the keys and promises nothing about rows with equal keys
sort_values(frame) ==
    LET n == Len(frame)
    IN {[k \in 1..n |-> frame[p[k]]] :
          p \in {q \in Permutations(1..n) :
                    \A i, j \in 1..n :
                       i < j => frame[q[i]].prioridade[2] >= frame[q[j]].prioridade[2]}}

Todos == TextV("Todos")

\* the options of a filter selectbox
opcoes(frame, col) ==
    {Todos} \cup {frame[k][col] : k \in {j \in 1..Len(frame) :
                                            /\ notna(frame[j][col])
                                            /\ frame[j][col] # TextV("")}}

filtrar(frame, col, filtro) ==
    IF filtro # Todos THEN SelectSeq(frame, LAMBDA r : r[col] = filtro) ELSE frame

\* df_view
view(frame, filtro_forn, filtro_cat) ==
    filtrar(filtrar(frame, "fornecedor", filtro_forn), "categoria", filtro_cat)

---------------------------------------------------------------------------
(* save_changes *)

\* str(val) of a date object or of a string
str(val) == IF val[1] = "date" THEN IsoV(val[2]) ELSE val

\* _norm_date: ISO string or None; what pd.to_datetime rejects is kept as str(val)
norm_date(val) ==
    IF isna(val) THEN Null
    ELSE IF val[1] \in {"iso", "date"} /\ val[2] \in Representable THEN IsoV(val[2])
    ELSE str(val)

\* mutant: an absent value always becomes 0
int_or_zero(c, default) == IF notna(c) THEN IntV(c[2]) ELSE IntV(0)

\* int(x) if pd.notna(x) else default
int_or(c, default) == IF notna(c) THEN IntV(c[2]) ELSE default

\* x or "nao_solicitado": None and "" are falsy
status_or(c) == IF isna(c) \/ c = TextV("") THEN TextV("nao_solicitado") ELSE c

\* the parameters bound to the UPDATE
update_params(row) ==
    [produto |-> row.produto,
     sku |-> row.sku,
     categoria |-> row.categoria,
     qtd_atual |-> int_or(row.qtd_atual, Null),
     ponto_reposicao |-> int_or(row.ponto_reposicao, Null),
     status_reposicao |-> status_or(row.status_reposicao),
     disponivel_mercado |-> int_or(row.disponivel_mercado, IntV(1)),
     fornecedor |-> row.fornecedor,
     data_ultima_compra |-> norm_date(row.data_ultima_compra),
     previsao_entrega |-> norm_date(row.previsao_entrega),
     consumo_diario |-> Null]

\* the parameters bound to the INSERT
insert_params(row) ==
    [produto |-> row.produto,
     sku |-> row.sku,
     categoria |-> row.categoria,
     qtd_atual |-> int_or(row.qtd_atual, Null),
     ponto_reposicao |-> int_or(row.ponto_reposicao, Null),
     status_reposicao |-> status_or(row.status_reposicao),
     disponivel_mercado |-> int_or(row.disponivel_mercado, IntV(1)),
     fornecedor |-> row.fornecedor,
     data_ultima_compra |-> norm_date(row.data_ultima_compra),
     previsao_entrega |-> norm_date(row.previsao_entrega),
     consumo_diario |-> Null]

\* df_editado[df_editado["id"].notna()] and df_editado[df_editado["id"].isna()]
existentes(df_editado) == SelectSeq(df_editado, LAMBDA r : notna(r.id))
novos(df_editado) == SelectSeq(df_editado, LAMBDA r : isna(r.id))

\* mutant: the WHERE clause matches no row
update_no_match(rows, row) == rows

\* UPDATE produtos SET ... WHERE id = ?: no row with that id, nothing changes
update(rows, row) ==
    LET id_val == row.id[2]
    IN IF id_val \in DOMAIN rows
       THEN [rows EXCEPT ![id_val] = update_params(row)]
       ELSE rows

RECURSIVE updates(_, _)
updates(rows, ex) ==
    IF ex = <<>> THEN rows ELSE updates(update(rows, Head(ex)), Tail(ex))

\* mutant: the largest rowid itself, not its successor
next_rowid_reuse(t) ==
    LET largest == IF DOMAIN t.rows = {} THEN 0
                   ELSE CHOOSE x \in DOMAIN t.rows : \A y \in DOMAIN t.rows : y <= x
    IN IF t.seq > largest THEN t.seq ELSE largest

\* the rowid an INTEGER PRIMARY KEY AUTOINCREMENT column gives the next row:
\* one more than the largest rowid the table has ever held
next_rowid(t) ==
    LET largest == IF DOMAIN t.rows = {} THEN 0
                   ELSE CHOOSE x \in DOMAIN t.rows : \A y \in DOMAIN t.rows : y <= x
    IN (IF t.seq > largest THEN t.seq ELSE largest) + 1

\* INSERT INTO produtos (...) VALUES (...); t is [rows, seq, ids]
insert(t, row) ==
    LET new == next_rowid(t)
    IN [rows |-> [i \in DOMAIN t.rows \cup {new} |->
                     IF i = new THEN insert_params(row) ELSE t.rows[i]],
        seq |-> new,
        ids |-> Append(t.ids, new)]

RECURSIVE inserts(_, _)
inserts(t, nv) ==
    IF nv = <<>> THEN t ELSE inserts(insert(t, Head(nv)), Tail(nv))

\* mutant: a save that also deletes the stored rows the snapshot does not hold
save_changes_sync(d, df_editado) ==
    LET kept == {i \in DOMAIN d.rows :
                    \E k \in 1..Len(df_editado) : df_editado[k].id = IntV(i)}
        updated == updates([i \in kept |-> d.rows[i]], existentes(df_editado))
        t == inserts([rows |-> updated, seq |-> d.seq, ids |-> <<>>], novos(df_editado))
    IN [db |-> [d EXCEPT !.rows = t.rows, !.seq = t.seq], ids |-> t.ids]

\* the table after save_changes(df_editado), and the rowids its INSERTs returned
save_changes(d, df_editado) ==
    LET updated == updates(d.rows, existentes(df_editado))
        t == inserts([rows |-> updated, seq |-> d.seq, ids |-> <<>>], novos(df_editado))
    IN [db |-> [d EXCEPT !.rows = t.rows, !.seq = t.seq], ids |-> t.ids]

---------------------------------------------------------------------------
(* The editor *)

df_cols == required_cols \cup {"index", "situacao", "prioridade"}

\* the row st.data_editor appends with num_rows="dynamic": every cell empty
linha_nova == [c \in df_cols |-> Null]

\* the cell values a user types or picks in the editor
entradas ==
    { <<"produto", TextV("Novo")>>,
      <<"qtd_atual", IntV(-1)>>,
      <<"qtd_atual", IntV(7)>>,
      <<"status_reposicao", Null>>,
      <<"status_reposicao", TextV("em_transito")>>,
      <<"disponivel_mercado", IntV(0)>>,
      <<"previsao_entrega", DateV("2024-05-01")>>,
      <<"previsao_entrega", DateV("2300-01-01")>>,
      <<"consumo_diario", IntV(2)>> }

remove_at(frame, i) == SubSeq(frame, 1, i - 1) \o SubSeq(frame, i + 1, Len(frame))

---------------------------------------------------------------------------
(* The files the application may find when it first starts *)

\* a row written by a version of the application whose table had the columns cols
linha_antiga(cols) == [c \in cols \ {"id"} |-> exemplos[1][c]]

\* a table of an older version: one required column is missing
banco_antigo(falta) ==
    LET cols == required_cols \ {falta}
    IN [exists |-> TRUE, cols |-> cols,
        rows |-> [i \in {1} |-> linha_antiga(cols)], seq |-> 1]

\* a file with no produtos table
banco_vazio == [exists |-> TRUE, cols |-> {}, rows |-> NoRows, seq |-> 0]

\* a table of this version holding the first example row, saved by an earlier visit
banco_atual ==
    [exists |-> TRUE, cols |-> required_cols,
     rows |-> [i \in {1} |-> insert_params(exemplos[1])], seq |-> 1]

bancos_iniciais ==
    {NoFile, banco_vazio, banco_atual}
        \cup {banco_antigo(c) : c \in {"fornecedor", "previsao_entrega"}}

---------------------------------------------------------------------------
(* Actions *)

\* what init_db finds on disk
found(d) ==
    IF ~d.exists THEN "no_file"
    ELSE IF d.cols = {} THEN "no_table"
    ELSE IF required_cols \subseteq d.cols THEN "compatible"
    ELSE "missing_columns"

op_record(op, s, inspected) ==
    [op |-> op, s |-> s, inspected |-> inspected,
     found |-> found(db), had |-> Cardinality(DOMAIN db.rows)]

Start ==
    /\ db \in bancos_iniciais
    /\ ever = DOMAIN db.rows
    /\ df = [s \in Sessions |-> <<>>]
    /\ edited = [s \in Sessions |-> <<>>]
    /\ ran = [s \in Sessions |-> FALSE]
    /\ edits = 0
    /\ runs = 0
    /\ savers = <<>>
    /\ assigned = <<>>
    /\ lastOp = op_record("start", "none", TRUE)

\* one browser session
Init == Start /\ open = {"s1"}

\* two browser sessions on the same file
InitTwo == Start /\ open = Sessions

\* One run of the page script in session s: init_db(), load_data(), the
\* normalisation, the classification, the sort, the filters and the editor.
Run(s) ==
    /\ runs < MaxRuns
    /\ runs' = runs + 1
    /\ UNCHANGED <<edits, savers, open>>
    /\ \E inspected \in BOOLEAN :
        LET guarded == schema_guard(db, inspected)
            d == init_db(db, inspected)
        IN \E sorted \in sort_values(derived_df(d)) :
             \E filtro_forn \in opcoes(sorted, "fornecedor") :
               \E filtro_cat \in opcoes(sorted, "categoria") :
                  /\ db' = d
                  /\ ever' = IF guarded.exists THEN ever ELSE {}
                  /\ df' = [df EXCEPT ![s] = sorted]
                  /\ edited' = [edited EXCEPT ![s] = view(sorted, filtro_forn, filtro_cat)]
                  /\ ran' = [ran EXCEPT ![s] = TRUE]
                  /\ assigned' = <<>>
                  /\ lastOp' = op_record("run", s, ~db.exists \/ inspected)

\* the user appends an empty row in the editor
AddRow(s) ==
    /\ ran[s]
    /\ edits < MaxEdits
    /\ Len(edited[s]) < MaxRows
    /\ edited' = [edited EXCEPT ![s] = Append(@, linha_nova)]
    /\ edits' = edits + 1
    /\ assigned' = <<>>
    /\ lastOp' = op_record("edit", s, TRUE)
    /\ UNCHANGED <<db, ever, df, ran, open, runs, savers>>

\* the user changes one cell
SetCell(s) ==
    /\ ran[s]
    /\ edits < MaxEdits
    /\ \E i \in 1..Len(edited[s]) : \E e \in entradas :
          /\ edited[s][i][e[1]] # e[2]
          /\ edited' = [edited EXCEPT ![s][i][e[1]] = e[2]]
    /\ edits' = edits + 1
    /\ assigned' = <<>>
    /\ lastOp' = op_record("edit", s, TRUE)
    /\ UNCHANGED <<db, ever, df, ran, open, runs, savers>>

\* the user removes one row
DeleteRow(s) ==
    /\ ran[s]
    /\ edits < MaxEdits
    /\ \E i \in 1..Len(edited[s]) :
          edited' = [edited EXCEPT ![s] = remove_at(@, i)]
    /\ edits' = edits + 1
    /\ assigned' = <<>>
    /\ lastOp' = op_record("edit", s, TRUE)
    /\ UNCHANGED <<db, ever, df, ran, open, runs, savers>>

\* "Salvar alterações no banco": save_changes(edited_df).  The page asks for a
\* reload afterwards: the session edits or saves again only after a new run.
Save(s) ==
    /\ ran[s]
    /\ Len(savers) < MaxSaves
    /\ savers' = Append(savers, s)
    /\ Cardinality(DOMAIN db.rows) + Len(novos(edited[s])) <= MaxRows
    /\ LET r == save_changes(db, edited[s])
       IN /\ db' = r.db
          /\ assigned' = r.ids
          /\ ever' = ever \cup DOMAIN r.db.rows
    /\ ran' = [ran EXCEPT ![s] = FALSE]
    /\ lastOp' = op_record("save", s, TRUE)
    /\ UNCHANGED <<df, edited, open, edits, runs>>

Next ==
    \/ \E s \in open : Run(s)
    \/ \E s \in open : AddRow(s)
    \/ \E s \in open : SetCell(s)
    \/ \E s \in open : DeleteRow(s)
    \/ \E s \in open : Save(s)

Spec == Init /\ [][Next]_vars

SpecTwo == InitTwo /\ [][Next]_vars

---------------------------------------------------------------------------
(* Vocabulary of the properties *)

\* the step is a call of save_changes by session s
SaveStep(s) == savers' = Append(savers, s)

\* the step is a run of the page script (init_db, load_data, ...)
RunStep == runs' = runs + 1

\* the ids of the rows of a DataFrame that carry one
ids_of(frame) == {frame[k].id[2] : k \in {j \in 1..Len(frame) : notna(frame[j].id)}}

\* the row of a DataFrame with id i
row_of(frame, i) == frame[CHOOSE k \in 1..Len(frame) : frame[k].id = IntV(i)]

\* the SQLite value that is the same value as a DataFrame cell: a date is held as
\* its ISO text, everything else as itself
as_stored(c) == IF c[1] = "date" THEN IsoV(c[2]) ELSE c

\* the value save_changes documents for column c of a submitted row: the defaults
\* for a blank status and an absent availability, null for consumo_diario
coerced(c, v) ==
    IF c = "status_reposicao"
    THEN (IF v = Null \/ v = TextV("") THEN TextV("nao_solicitado") ELSE v)
    ELSE IF c = "disponivel_mercado" THEN (IF v = Null THEN IntV(1) ELSE v)
    ELSE IF c = "consumo_diario" THEN Null
    ELSE as_stored(v)

---------------------------------------------------------------------------
(* C1 *)

\* C1: a row loaded (load_data, then the type normalisation), passed unedited to
\* save_changes and loaded again has the same persisted values in every column
\* of the table as before the save.
C1_RoundTrip ==
    [][\A s \in open :
          (/\ SaveStep(s)
           /\ DOMAIN db.rows # {}
           /\ edited[s] \in sort_values(derived_df(db)))
          => load_data(db') = load_data(db)]_vars

---------------------------------------------------------------------------
(* C2 *)

\* the rows of the snapshot of s that have no id were each stored under their own
\* fresh positive id, and load_data returns them with the values want(c, v)
inserted_as(s, want(_, _)) ==
    LET nv == novos(edited[s])
        after == load_data(db')
    IN /\ Len(assigned') = Len(nv)
       /\ \A k \in 1..Len(nv) :
            LET i == assigned'[k]
            IN /\ i > 0
               /\ i \notin ever
               /\ \A j \in 1..Len(nv) : j # k => assigned'[j] # i
               /\ \E n \in 1..Len(after) :
                     /\ after[n].id = IntV(i)
                     /\ \A c \in data_cols : after[n][c] = want(c, nv[k][c])

submitted(c, v) == as_stored(v)

\* C2 (as claimed): every row submitted to save_changes without an identity is
\* stored under a positive identity no row of the store has or has had, and the
\* next load_data returns it with all submitted field values intact.
C2_InsertReload ==
    [][\A s \in open : SaveStep(s) => inserted_as(s, submitted)]_vars

\* C2 (amended): as claimed, except that a blank status is returned as
\* "nao_solicitado", an absent availability as 1 and consumo_diario as null.
C2_InsertReloadDefaults ==
    [][\A s \in open : SaveStep(s) => inserted_as(s, coerced)]_vars

\* a save has just stored a new row whose status was left blank
C2_Witness ==
    /\ lastOp.op = "save"
    /\ LET nv == novos(edited[lastOp.s])
       IN /\ Len(assigned) = Len(nv)
          /\ \E k \in 1..Len(nv) :
                /\ isna(nv[k].status_reposicao)
                /\ assigned[k] \in DOMAIN db.rows
                /\ db.rows[assigned[k]].status_reposicao = TextV("nao_solicitado")
                /\ db.rows[assigned[k]].produto = nv[k].produto

---------------------------------------------------------------------------
(* C3 *)

\* C3: when init_db runs against a file whose produtos table lacks a required
\* column, no stored row survives and the table exists with every required column.
C3_SchemaGuard ==
    [][(RunStep /\ found(db) = "missing_columns")
          => /\ db'.exists
             /\ required_cols \subseteq db'.cols
             /\ DOMAIN db'.rows = {}]_vars

\* init_db has just rebuilt a table that lacked a column and held rows
C3_Witness ==
    /\ lastOp.op = "run"
    /\ lastOp.found = "missing_columns"
    /\ lastOp.had > 0
    /\ found(db) = "compatible"
    /\ DOMAIN db.rows = {}

---------------------------------------------------------------------------
(* C4 *)

\* C4: a save leaves every stored row whose id is not in the submitted snapshot
\* present and with unchanged field values.
C4_Frame ==
    [][\A s \in open :
          SaveStep(s) =>
             \A i \in DOMAIN db.rows :
                i \notin ids_of(edited[s]) =>
                   /\ i \in DOMAIN db'.rows
                   /\ db'.rows[i] = db.rows[i]]_vars

\* a save of a snapshot that holds some stored rows and lacks another stored row
C4_Witness ==
    /\ lastOp.op = "save"
    /\ \E i, j \in DOMAIN db.rows :
          /\ i \notin ids_of(edited[lastOp.s])
          /\ \A k \in 1..Len(assigned) : assigned[k] # i
          /\ j \in ids_of(edited[lastOp.s])

---------------------------------------------------------------------------
(* C5 *)

\* C5: in every reachable state qtd_atual and ponto_reposicao of every row, as
\* materialised for the classification, are non-negative integers.
C5_NonNegative ==
    \A s \in open : \A k \in 1..Len(df[s]) :
        /\ df[s][k].qtd_atual[1] = "int"
        /\ df[s][k].qtd_atual[2] >= 0
        /\ df[s][k].ponto_reposicao[1] = "int"
        /\ df[s][k].ponto_reposicao[2] >= 0

---------------------------------------------------------------------------
(* C6 *)

\* the number of the first rule of the ordered list that a row matches
first_rule(qty, reorder_point, available) ==
    IF qty <= 0 /\ ~available THEN 1
    ELSE IF qty <= reorder_point /\ ~available THEN 2
    ELSE IF qty <= 0 THEN 3
    ELSE IF qty <= reorder_point THEN 4
    ELSE 5

rule_label == <<SemEstoqueSemMercado, Critico, SemEstoque, Baixo, Ok>>
rule_priority == <<4, 3, 2, 1, 0>>

\* C6: the situation of every row is that of the first matching rule and its
\* priority the number paired with the rule; a row that is not available and has
\* no stock has priority 4 whatever its reorder point.
C6_Classification ==
    \A s \in open : \A k \in 1..Len(df[s]) :
        LET r == df[s][k]
            rule == first_rule(r.qtd_atual[2], r.ponto_reposicao[2],
                               r.disponivel_mercado[2] # 0)
        IN /\ r.situacao = TextV(rule_label[rule])
           /\ r.prioridade = IntV(rule_priority[rule])
           /\ (r.disponivel_mercado[2] = 0 /\ r.qtd_atual[2] <= 0)
                 => r.prioridade = IntV(4)

\* a page shows both a row without stock and without market and a row that only
\* the second rule matches
C6_Witness ==
    \E s \in open : \E k, n \in 1..Len(df[s]) :
        /\ df[s][k].disponivel_mercado = IntV(0)
        /\ df[s][k].qtd_atual[2] <= 0
        /\ df[s][k].prioridade = IntV(4)
        /\ df[s][n].disponivel_mercado = IntV(0)
        /\ df[s][n].qtd_atual[2] > 0
        /\ df[s][n].prioridade = IntV(3)

---------------------------------------------------------------------------
(* C7 *)

\* C7: the rows are in descending order of priority and rows of equal priority
\* keep the relative order they had before the sort.
C7_StableSort ==
    \A s \in open : \A i, j \in 1..Len(df[s]) :
        i < j =>
           /\ df[s][i].prioridade[2] >= df[s][j].prioridade[2]
           /\ df[s][i].prioridade = df[s][j].prioridade
                 => df[s][i].index[2] < df[s][j].index[2]

---------------------------------------------------------------------------
(* C8 *)

\* sessions s and t both loaded the stored row i, both submit it, and the last
\* save_changes call before this one was t's
both_save(s, t, i) ==
    /\ t # s
    /\ savers # <<>>
    /\ savers[Len(savers)] = t
    /\ SaveStep(s)
    /\ i \in DOMAIN db.rows
    /\ i \in ids_of(df[s]) \cap ids_of(df[t])
    /\ i \in ids_of(edited[s]) \cap ids_of(edited[t])
    /\ \A c \in data_cols : row_of(df[s], i)[c] = row_of(df[t], i)[c]

\* C8 (as claimed): after both saves the stored row equals the whole row as
\* submitted by the session that saved later.
C8_LastWriterWins ==
    [][\A s, t \in open : \A i \in DOMAIN db.rows :
          both_save(s, t, i) =>
             \A c \in data_cols :
                db'.rows[i][c] = as_stored(row_of(edited[s], i)[c])]_vars

\* C8 (amended): after both saves the stored row equals the whole row as
\* submitted by the later session, with a blank status stored as "nao_solicitado",
\* an absent availability as 1 and consumo_diario as null.
C8_LastWriterWinsCoerced ==
    [][\A s, t \in open : \A i \in DOMAIN db.rows :
          both_save(s, t, i) =>
             \A c \in data_cols :
                db'.rows[i][c] = coerced(c, row_of(edited[s], i)[c])]_vars

\* both sessions saved row i; the earlier one had edited a column the later one
\* had not, and the stored row holds the later session's value of that column
C8_Witness ==
    /\ Len(savers) = 2
    /\ savers[1] # savers[2]
    /\ lastOp.op = "save"
    /\ LET t == savers[1]
           s == savers[2]
       IN \E i \in DOMAIN db.rows :
            /\ i \in ids_of(df[s]) \cap ids_of(df[t])
            /\ i \in ids_of(edited[s]) \cap ids_of(edited[t])
            /\ \E c, c2 \in data_cols :
                  /\ row_of(edited[t], i)[c] # row_of(df[t], i)[c]
                  /\ row_of(edited[s], i)[c] = row_of(df[s], i)[c]
                  /\ db.rows[i][c] = as_stored(row_of(edited[s], i)[c])
                  /\ db.rows[i][c] # as_stored(row_of(edited[t], i)[c])
                  /\ row_of(edited[s], i)[c2] # row_of(df[s], i)[c2]
                  /\ db.rows[i][c2] = as_stored(row_of(edited[s], i)[c2])

---------------------------------------------------------------------------
(* C9 *)

\* every row of the snapshot of s reached the table, and the stored row of each
\* row with an absent quantity, reorder point or availability passes ok(r, st)
all_processed(s, ok(_, _)) ==
    LET ex == existentes(edited[s])
        nv == novos(edited[s])
    IN /\ Len(assigned') = Len(nv)
       /\ \A k \in 1..Len(nv) :
             /\ assigned'[k] \in DOMAIN db'.rows
             /\ db'.rows[assigned'[k]].produto = nv[k].produto
             /\ ok(nv[k], db'.rows[assigned'[k]])
       /\ \A k \in 1..Len(ex) :
             ex[k].id[2] \in DOMAIN db.rows =>
                /\ db'.rows[ex[k].id[2]].produto = ex[k].produto
                /\ ok(ex[k], db'.rows[ex[k].id[2]])

\* the page script materialises every quantity, reorder point and availability
\* as an integer: a null as 0, 0 and 1
loaded_defaults(s) ==
    \A k \in 1..Len(df'[s]) :
        LET r == df'[s][k]
        IN /\ r.qtd_atual[1] = "int"
           /\ r.ponto_reposicao[1] = "int"
           /\ r.disponivel_mercado[1] = "int"
           /\ notna(r.id) =>
                 /\ isna(db'.rows[r.id[2]].qtd_atual) => r.qtd_atual = IntV(0)
                 /\ isna(db'.rows[r.id[2]].ponto_reposicao) => r.ponto_reposicao = IntV(0)
                 /\ isna(db'.rows[r.id[2]].disponivel_mercado)
                       => r.disponivel_mercado = IntV(1)

stored_default(r, st) ==
    /\ isna(r.qtd_atual) => st.qtd_atual = IntV(0)
    /\ isna(r.ponto_reposicao) => st.ponto_reposicao = IntV(0)
    /\ isna(r.disponivel_mercado) => st.disponivel_mercado = IntV(1)

stored_null(r, st) ==
    /\ isna(r.qtd_atual) => st.qtd_atual = Null
    /\ isna(r.ponto_reposicao) => st.ponto_reposicao = Null
    /\ isna(r.disponivel_mercado) => st.disponivel_mercado = IntV(1)

---------------------------------------------------------------------------
(* C10 *)

\* no id leaves the table, and a page run leaves the rows as they were
rows_kept ==
    /\ DOMAIN db.rows \subseteq DOMAIN db'.rows
    /\ RunStep => db'.rows = db.rows

\* C10 (as claimed): whenever init_db runs against a table that has every
\* required column every stored row is kept, so that no sequence of startups and
\* saves makes a persisted identity disappear.
C10_NonDestructive ==
    [][found(db) = "compatible" => rows_kept]_vars

\* C10 (amended): as claimed, provided the inspection of the schema raises no
\* exception; when it raises, init_db deletes the file and every row with it.
C10_NonDestructiveInspected ==
    [][(found(db) = "compatible" /\ (RunStep => lastOp'.inspected)) => rows_kept]_vars

\* init_db has just run against a compatible table that holds rows
C10_Witness ==
    /\ lastOp.op = "run"
    /\ lastOp.found = "compatible"
    /\ lastOp.inspected
    /\ lastOp.had > 0
    /\ Cardinality(DOMAIN db.rows) = lastOp.had

===========================================================================
